---- MODULE Spec2Model ----
(***************************************************************************)
(* Model of diener's `update` subcommand (src/src/update.rs).              *)
(*                                                                         *)
(* Strings are TLA+ strings.  An Option<T> is a sequence of length 0       *)
(* (None) or 1 (Some).  A TOML value is a record [isStr, s]; an inline     *)
(* table (a dependency entry) is a function from the names of the fields   *)
(* that are present to their values.  Key order and the whitespace         *)
(* decoration of values are not modelled.                                  *)
(***************************************************************************)
EXTENDS Integers, Sequences, FiniteSets, TLC

VARIABLES
    \* --- one dependency entry under handle_dependency (SpecDep) ---
    name,          \* the dependency's key in its table
    dep,           \* the inline table, mutated in place
    dep0,          \* the inline table before the first call
    dep1,          \* the inline table after the first call
    rewrite,       \* Rewrite
    key,           \* Key
    world,         \* what the registry, the remote URL and the local lockfile answer
    calls,         \* number of handle_dependency calls made so far
    res1,          \* result of the first call: "none", "ok", "err"
    res,           \* result of the latest call
    \* --- lockfile lookup (SpecLock) ---
    body,          \* lockfile text, as parsed
    package_name,  \* requested package
    lock_result,   \* Option<String>
    lock_done,
    \* --- Update::run (Spec) ---
    opts,          \* the Update struct
    path_is_dir,   \* whether the resolved path is a directory
    tree,          \* the walk: directory entries in walk order
    disk,          \* current content of each walk entry's file
    pc,            \* "start", "walk", "done"
    idx,           \* position of the walk
    parts,         \* result of into_parts
    result,        \* result of run: "none", "ok", "err"
    log            \* file reads, handle_dependency calls and file writes, in order

depVars  == <<name, dep, dep0, dep1, rewrite, key, calls, res1, res>>
lockVars == <<body, package_name, lock_result, lock_done>>
runVars  == <<opts, path_is_dir, tree, disk, pc, idx, parts, result, log>>
vars     == <<depVars, world, lockVars, runVars>>

----------------------------------------------------------------------------
\* Bounds

MaxCalls == 2
MaxRecords == 3
MaxFiles == 3

----------------------------------------------------------------------------
\* Option, TOML values, inline tables

None == <<>>
Some(x) == <<x>>
IsSome(o) == Len(o) = 1
Unwrap(o) == o[1]

Str(s) == [isStr |-> TRUE, s |-> s]
NonStr == [isStr |-> FALSE, s |-> "1"]

\* Value::as_str
as_str(v) == IF v.isStr THEN Some(v.s) ELSE None

\* InlineTable::get
Get(d, f) == IF f \in DOMAIN d THEN Some(d[f]) ELSE None

\* InlineTable::remove
Remove(d, f) == [x \in (DOMAIN d) \ {f} |-> d[x]]

\* *InlineTable::get_or_insert(f, "") = v
Insert(d, f, v) == [x \in (DOMAIN d) \cup {f} |-> IF x = f THEN v ELSE d[x]]

----------------------------------------------------------------------------
\* Git URLs

SubstrateUrl == "https://github.com/paritytech/substrate"
PolkadotUrl == "https://github.com/paritytech/polkadot.git"
CumulusUrl == "https://github.com/paritytech/cumulus"
BeefyUrl == "https://github.com/paritytech/grandpa-bridge-gadget"
ForkSameName == "https://github.com/myfork/substrate.git"
ForkOtherName == "https://github.com/myfork/my-substrate"
BadUrl == "::unparsable::"

\* GitUrl::parse(d).ok(), reduced to the `name` component of the result
GitUrlParse(d) ==
    CASE d = SubstrateUrl -> Some("substrate")
      [] d = PolkadotUrl -> Some("polkadot")
      [] d = CumulusUrl -> Some("cumulus")
      [] d = BeefyUrl -> Some("grandpa-bridge-gadget")
      [] d = ForkSameName -> Some("substrate")
      [] d = ForkOtherName -> Some("my-substrate")
      [] OTHER -> None

----------------------------------------------------------------------------
\* Version resolution

\* A variant of the scan in which a later matching record overrides an earlier one
RECURSIVE ScanPackages_Last(_, _)
ScanPackages_Last(records, pkg) ==
    IF records = <<>> THEN None
    ELSE LET package == records[Len(records)] IN
         IF /\ IsSome(package.name)
            /\ Unwrap(package.name) = pkg
            /\ IsSome(package.version)
         THEN Some(Unwrap(package.version))
         ELSE ScanPackages_Last(SubSeq(records, 1, Len(records) - 1), pkg)

\* get_package_version_from_cargo_lock_file's scan of the package records
RECURSIVE ScanPackages(_, _)
ScanPackages(records, pkg) ==
    IF records = <<>> THEN None
    ELSE LET package == Head(records) IN
         IF /\ IsSome(package.name)
            /\ Unwrap(package.name) = pkg
            /\ IsSome(package.version)
         THEN Some(Unwrap(package.version))
         ELSE ScanPackages(Tail(records), pkg)

get_package_version_from_cargo_lock_file(b, pkg) ==
    IF ~b.parses THEN None
    ELSE IF ~b.has_packages THEN None
    ELSE ScanPackages(b.records, pkg)

\* Result<String> as [ok, v]
Ok(v) == [ok |-> TRUE, v |-> v]
Err == [ok |-> FALSE, v |-> ""]

ok_or(o) == IF IsSome(o) THEN Ok(Unwrap(o)) ELSE Err

get_package_version(package, source, w) ==
    CASE source = "CratesIO" ->
            LET r == w.crates[package] IN
            IF r.status = "netfail" THEN Err
            ELSE IF r.status = "nonjson" THEN Err
            ELSE ok_or(r.max_version)
      [] source = "Url" ->
            IF ~w.url.ok THEN Err
            ELSE ok_or(get_package_version_from_cargo_lock_file(w.url.body, package))
      [] source = "File" ->
            IF ~w.file.ok THEN Err
            ELSE ok_or(get_package_version_from_cargo_lock_file(w.file.body, package))

----------------------------------------------------------------------------
\* handle_dependency

is_git_source(k) == k.kind \in {"Tag", "Branch", "Rev"}

\* A variant that forgets dep.remove("branch")
RemoveVcsFields_KeepBranch(d) == Remove(Remove(d, "tag"), "rev")

\* dep.remove("tag"); dep.remove("branch"); dep.remove("rev");
RemoveVcsFields(d) == Remove(Remove(Remove(d, "tag"), "branch"), "rev")

\* A variant that forgets dep.remove("path")
RemoveVersionFields_KeepPath(d) == Remove(d, "version")

\* dep.remove("version"); dep.remove("path");
RemoveVersionFields(d) == Remove(Remove(d, "version"), "path")

\* dep.get("git").and_then(|v| v.as_str()).and_then(|d| GitUrl::parse(d).ok())
ParsedGit(d) ==
    LET g == Get(d, "git") IN
    IF ~IsSome(g) THEN None
    ELSE LET s == as_str(Unwrap(g)) IN
         IF ~IsSome(s) THEN None ELSE GitUrlParse(Unwrap(s))

\* the `match rewrite` : Some(new_git) when the entry is selected, None on `_ => return`
MatchRewrite(rw, git_name) ==
    CASE rw.kind = "All" -> Some(None)
      [] rw.kind = "Substrate" /\ git_name = "substrate" -> Some(rw.git)
      [] rw.kind = "Polkadot" /\ git_name = "polkadot" -> Some(rw.git)
      [] rw.kind = "Cumulus" /\ git_name = "cumulus" -> Some(rw.git)
      [] rw.kind = "Beefy" /\ git_name = "grandpa-bridge-gadget" -> Some(rw.git)
      [] OTHER -> None

\* the package handed to the resolver
EffectivePackage(n, d) ==
    LET p == Get(d, "package") IN
    IF IsSome(p) /\ IsSome(as_str(Unwrap(p))) THEN Unwrap(as_str(Unwrap(p))) ELSE n

\* the `match key`
SetKeyField(n, d, k, w) ==
    CASE k.kind = "Tag" -> [dep |-> Insert(d, "tag", Str(k.s)), ok |-> TRUE]
      [] k.kind = "Branch" -> [dep |-> Insert(d, "branch", Str(k.s)), ok |-> TRUE]
      [] k.kind = "Rev" -> [dep |-> Insert(d, "rev", Str(k.s)), ok |-> TRUE]
      [] k.kind = "Version" ->
            LET version == get_package_version(EffectivePackage(n, d), k.src, w) IN
            IF ~version.ok THEN [dep |-> d, ok |-> FALSE]
            ELSE [dep |-> Insert(d, "version", Str(version.v)), ok |-> TRUE]

\* The entry as the call leaves it, and whether the call returned Ok
handle_dependency(n, d, rw, k, w) ==
    IF is_git_source(k) THEN
        LET d1 == RemoveVcsFields(d)
            git == ParsedGit(d1)
        IN  IF ~IsSome(git) THEN [dep |-> d1, ok |-> TRUE]
            ELSE LET new_git == MatchRewrite(rw, Unwrap(git)) IN
                 IF ~IsSome(new_git) THEN [dep |-> d1, ok |-> TRUE]
                 ELSE LET d2 == IF IsSome(Unwrap(new_git))
                                THEN Insert(d1, "git", Str(Unwrap(Unwrap(new_git))))
                                ELSE d1
                      IN  SetKeyField(n, d2, k, w)
    ELSE SetKeyField(n, RemoveVersionFields(d), k, w)

----------------------------------------------------------------------------
\* Input universes

PkgNames == {"foo", "bar", "renamed"}

Rec(n, v) == [name |-> n, version |-> v]
Body(p, h, r) == [parses |-> p, has_packages |-> h, records |-> r]
Fetch(o, b) == [ok |-> o, body |-> b]
EmptyBody == Body(TRUE, TRUE, <<>>)

Json(mv) == [status |-> "json", max_version |-> mv]
NetFail == [status |-> "netfail", max_version |-> None]
NonJson == [status |-> "nonjson", max_version |-> None]

\* The registry knows foo; the remote lockfile lists foo twice; the local
\* lockfile cannot be read.
World1 ==
    [crates |-> [p \in PkgNames |-> IF p = "foo" THEN Json(Some("4.2.0")) ELSE Json(None)],
     url |-> Fetch(TRUE, Body(TRUE, TRUE,
                <<Rec(Some("foo"), Some("1.0.0")), Rec(Some("foo"), Some("1.1.0"))>>)),
     file |-> Fetch(FALSE, EmptyBody)]

\* The network is down; the local lockfile lists only the renamed package.
World2 ==
    [crates |-> [p \in PkgNames |-> NetFail],
     url |-> Fetch(FALSE, EmptyBody),
     file |-> Fetch(TRUE, Body(TRUE, TRUE, <<Rec(Some("renamed"), Some("2.0.0"))>>))]

\* The registry answers with something that is not JSON; the remote body is
\* not a TOML document; the local lockfile has no `package` array.
World3 ==
    [crates |-> [p \in PkgNames |-> NonJson],
     url |-> Fetch(TRUE, Body(FALSE, FALSE, <<>>)),
     file |-> Fetch(TRUE, Body(TRUE, FALSE, <<>>))]

\* Every source knows foo and bar, none knows the renamed package.
World4 ==
    [crates |-> [p \in PkgNames |-> IF p = "renamed" THEN Json(None) ELSE Json(Some("4.2.0"))],
     url |-> Fetch(TRUE, Body(TRUE, TRUE,
                <<Rec(Some("bar"), None), Rec(Some("bar"), Some("0.3.0")),
                  Rec(Some("foo"), Some("1.0.0"))>>)),
     file |-> Fetch(TRUE, Body(TRUE, TRUE,
                <<Rec(None, Some("9.9.9")), Rec(Some("foo"), Some("1.0.0")),
                  Rec(Some("bar"), Some("0.3.0"))>>))]

Worlds == {World1, World2, World3, World4}

GitValues == {Str(SubstrateUrl), Str(PolkadotUrl), Str(CumulusUrl), Str(BeefyUrl),
              Str(ForkOtherName), Str(BadUrl), NonStr}

Fields == {"git", "tag", "branch", "rev", "version", "path", "package"}

\* The value a field other than `git` holds at the start, when present
FieldValue(f) ==
    CASE f = "tag" -> Str("v1")
      [] f = "branch" -> Str("master")
      [] f = "rev" -> Str("abc123")
      [] f = "version" -> Str("0.9.0")
      [] f = "path" -> Str("../foo")
      [] f = "package" -> Str("renamed")

EntryOf(S, g) ==
    [f \in S \cup (IF IsSome(g) THEN {"git"} ELSE {}) |->
        IF f = "git" THEN Unwrap(g) ELSE FieldValue(f)]

\* Every combination of present fields, with every kind of `git` value
Entries == {EntryOf(S, g) : S \in SUBSET (Fields \ {"git"}),
                            g \in {None} \cup {Some(v) : v \in GitValues}}

Rw(k, g) == [kind |-> k, git |-> g]
Rewrites == {Rw("All", None),
             Rw("Substrate", None), Rw("Substrate", Some(ForkSameName)),
             Rw("Substrate", Some(ForkOtherName)), Rw("Substrate", Some(BadUrl)),
             Rw("Polkadot", None), Rw("Cumulus", Some(ForkOtherName)),
             Rw("Beefy", None)}

K(k, s, src) == [kind |-> k, s |-> s, src |-> src]
VcsKeys == {K("Tag", "v2", "-"), K("Branch", "dev", "-"), K("Rev", "fedcba", "-")}
VersionKeys == {K("Version", "", "CratesIO"),
                K("Version", "https://example.org/Cargo.lock", "Url"),
                K("Version", "ws/Cargo.lock", "File")}
Keys == VcsKeys \cup VersionKeys

----------------------------------------------------------------------------
\* Values of the variables a specification does not use

IdleDep ==
    /\ name = "foo" /\ dep = <<>> /\ dep0 = <<>> /\ dep1 = <<>>
    /\ rewrite = Rw("All", None) /\ key = K("Tag", "v2", "-")
    /\ calls = 0 /\ res1 = "none" /\ res = "none"

IdleLock ==
    /\ body = EmptyBody /\ package_name = "foo"
    /\ lock_result = None /\ lock_done = FALSE

----------------------------------------------------------------------------
\* SpecDep: handle_dependency applied to one entry, MaxCalls times in a row

CallHandleDependency ==
    /\ calls < MaxCalls
    /\ LET r == handle_dependency(name, dep, rewrite, key, world) IN
        /\ dep' = r.dep
        /\ res' = IF r.ok THEN "ok" ELSE "err"
        /\ dep1' = IF calls = 0 THEN r.dep ELSE dep1
        /\ res1' = IF calls = 0 THEN (IF r.ok THEN "ok" ELSE "err") ELSE res1
    /\ calls' = calls + 1
    /\ UNCHANGED <<name, dep0, rewrite, key, world, lockVars, runVars>>


DepInit ==
    /\ name = "foo"
    /\ dep0 \in Entries
    /\ dep = dep0
    /\ dep1 = dep0
    /\ rewrite \in Rewrites
    /\ key \in Keys
    \* into_parts pairs a Version key with Rewrite::All
    /\ key.kind = "Version" => rewrite.kind = "All"
    /\ world \in Worlds
    /\ calls = 0 /\ res1 = "none" /\ res = "none"

----------------------------------------------------------------------------
\* SpecLock: one lookup in a lockfile

LockRecords == {Rec(n, v) : n \in {None, Some("foo"), Some("bar")},
                            v \in {None, Some("1.0.0"), Some("1.1.0")}}

SeqsUpTo(S, n) == UNION {[1..m -> S] : m \in 0..n}

LockBodies == {Body(TRUE, TRUE, r) : r \in SeqsUpTo(LockRecords, MaxRecords)}
                \cup {Body(FALSE, FALSE, <<>>), Body(TRUE, FALSE, <<>>)}

\* The lockfile is the local one (VersionSource::File) and is readable
LockWorld(b) == [crates |-> [p \in PkgNames |-> NetFail],
                 url |-> Fetch(FALSE, EmptyBody),
                 file |-> Fetch(TRUE, b)]

LockInit ==
    /\ body \in LockBodies
    /\ package_name \in {"foo", "bar"}
    /\ lock_result = None
    /\ lock_done = FALSE
    /\ world = LockWorld(body)

Lookup ==
    /\ ~lock_done
    /\ lock_result' = get_package_version_from_cargo_lock_file(body, package_name)
    /\ res' = IF get_package_version(package_name, "File", world).ok THEN "ok" ELSE "err"
    /\ lock_done' = TRUE
    /\ UNCHANGED <<name, dep, dep0, dep1, rewrite, key, calls, res1, world,
                   body, package_name, runVars>>

----------------------------------------------------------------------------
\* Update::into_parts

LockPath == "ws/Cargo.lock"

starts_with_http(v) == v \in {"http://example.org/Cargo.lock", "https://example.org/Cargo.lock"}
\* PathBuf::exists
path_exists(v) == v \in {LockPath, "ws/Cargo.toml"}
\* path.file_name() == Some("Cargo.lock")
file_name_is_cargo_lock(v) == v \in {LockPath, "missing/Cargo.lock",
                                     "https://example.org/Cargo.lock",
                                     "http://example.org/Cargo.lock"}

VersionArgs == {"latest", "https://example.org/Cargo.lock", LockPath,
                "missing/Cargo.lock", "ws/Cargo.toml", "1.0.0"}

\* A variant that falls back to the registry instead of bailing
get_version_source_NoBail(version) ==
    IF starts_with_http(version) THEN [ok |-> TRUE, src |-> "Url"]
    ELSE IF path_exists(version) /\ file_name_is_cargo_lock(version)
         THEN [ok |-> TRUE, src |-> "File"]
    ELSE [ok |-> TRUE, src |-> "CratesIO"]

\* Result<VersionSource> as [ok, src]
get_version_source(version) ==
    IF starts_with_http(version) THEN [ok |-> TRUE, src |-> "Url"]
    ELSE IF path_exists(version) /\ file_name_is_cargo_lock(version)
         THEN [ok |-> TRUE, src |-> "File"]
    ELSE IF version = "latest" THEN [ok |-> TRUE, src |-> "CratesIO"]
    ELSE [ok |-> FALSE, src |-> "-"]

NoParts == [ok |-> FALSE, rewrite |-> Rw("All", None), key |-> K("Tag", "", "-")]
Parts(rw, k) == [ok |-> TRUE, rewrite |-> rw, key |-> k]

\* Result<Key>, with the placeholder key on failure
KeyOf(o) ==
    IF IsSome(o.branch) THEN [ok |-> TRUE, key |-> K("Branch", Unwrap(o.branch), "-")]
    ELSE IF IsSome(o.rev) THEN [ok |-> TRUE, key |-> K("Rev", Unwrap(o.rev), "-")]
    ELSE IF IsSome(o.tag) THEN [ok |-> TRUE, key |-> K("Tag", Unwrap(o.tag), "-")]
    ELSE IF IsSome(o.version) THEN
        LET source == get_version_source(Unwrap(o.version)) IN
        IF source.ok THEN [ok |-> TRUE, key |-> K("Version", Unwrap(o.version), source.src)]
        ELSE [ok |-> FALSE, key |-> NoParts.key]
    ELSE [ok |-> FALSE, key |-> NoParts.key]

\* Result<Rewrite>, with the placeholder rewrite on failure
RewriteOf(o) ==
    IF o.all \/ IsSome(o.version) THEN
        IF IsSome(o.git) THEN [ok |-> FALSE, rewrite |-> NoParts.rewrite]
        ELSE [ok |-> TRUE, rewrite |-> Rw("All", None)]
    ELSE IF o.substrate THEN [ok |-> TRUE, rewrite |-> Rw("Substrate", o.git)]
    ELSE IF o.beefy THEN [ok |-> TRUE, rewrite |-> Rw("Beefy", o.git)]
    ELSE IF o.polkadot THEN [ok |-> TRUE, rewrite |-> Rw("Polkadot", o.git)]
    ELSE IF o.cumulus THEN [ok |-> TRUE, rewrite |-> Rw("Cumulus", o.git)]
    ELSE [ok |-> FALSE, rewrite |-> NoParts.rewrite]

into_parts(o) ==
    LET k == KeyOf(o) IN
    IF ~k.ok THEN NoParts
    ELSE LET rw == RewriteOf(o) IN
         IF ~rw.ok THEN NoParts ELSE Parts(rw.rewrite, k.key)

\* The command lines structopt lets through: `branch`, `rev`, `tag` and
\* `version` conflict with each other, `version` conflicts with `git`
Selectors == {"substrate", "polkadot", "cumulus", "beefy", "all"}

Opt(sel, b, r, t, v, g) ==
    [substrate |-> "substrate" \in sel, polkadot |-> "polkadot" \in sel,
     cumulus |-> "cumulus" \in sel, beefy |-> "beefy" \in sel, all |-> "all" \in sel,
     branch |-> b, rev |-> r, tag |-> t, version |-> v, git |-> g]

GitArgs == {None, Some(ForkOtherName)}

\* no selector, one selector, two selectors
SelectorSets == {sel \in SUBSET Selectors : Cardinality(sel) <= 2}

Options ==
    {Opt(sel, None, None, None, None, g) : sel \in SelectorSets, g \in GitArgs}
    \cup {Opt(sel, Some("dev"), None, None, None, g) : sel \in SelectorSets, g \in GitArgs}
    \cup {Opt(sel, None, Some("fedcba"), None, None, g) : sel \in SelectorSets, g \in GitArgs}
    \cup {Opt(sel, None, None, Some("v2"), None, g) : sel \in SelectorSets, g \in GitArgs}
    \cup {Opt(sel, None, None, None, Some(v), None) : sel \in SelectorSets, v \in VersionArgs}


----------------------------------------------------------------------------
\* Manifests

\* A document is a sequence of top-level items [key, is_table, items]; an item
\* of a table is [name, inline, dep].
Item(n, d) == [name |-> n, inline |-> TRUE, dep |-> d]
Plain(n) == [name |-> n, inline |-> FALSE, dep |-> <<>>]
Table(k, items) == [key |-> k, is_table |-> TRUE, items |-> items]
Scalar(k) == [key |-> k, is_table |-> FALSE, items |-> <<>>]

\* k.contains("dependencies")
contains_dependencies(k) == k \in {"dependencies", "dev-dependencies", "build-dependencies"}

DocA ==
    <<Table("package", <<Item("metadata", [version |-> Str("0.9.0"), branch |-> Str("master")])>>),
      Table("dependencies",
            <<Item("bar", [package |-> Str("renamed"), version |-> Str("0.9.0"),
                           path |-> Str("../foo")]),
              Plain("serde"),
              Item("foo", [git |-> Str(SubstrateUrl), branch |-> Str("master")])>>),
      Table("dev-dependencies",
            <<Item("bar", [git |-> Str(PolkadotUrl), tag |-> Str("v1"),
                           rev |-> Str("abc123")])>>)>>

DocB ==
    <<Scalar("dependencies"),
      Table("build-dependencies",
            <<Item("foo", [git |-> Str(CumulusUrl), rev |-> Str("abc123"),
                           version |-> Str("0.9.0")]),
              Item("bar", [path |-> Str("../foo")])>>)>>

DocAt(i) == IF i % 2 = 1 THEN DocA ELSE DocB

\* A directory entry of the walk
DirEntry(h, f, t, r, p, w) ==
    [hidden |-> h, is_file |-> f, ends_with_cargo_toml |-> t,
     readable |-> r, parses |-> p, writable |-> w]

DirEntries == {DirEntry(FALSE, TRUE, TRUE, TRUE, TRUE, TRUE),     \* a sound manifest
               DirEntry(FALSE, TRUE, TRUE, FALSE, TRUE, TRUE),    \* unreadable
               DirEntry(FALSE, TRUE, TRUE, TRUE, FALSE, TRUE),    \* not TOML
               DirEntry(FALSE, TRUE, TRUE, TRUE, TRUE, FALSE),    \* read-only
               DirEntry(TRUE, TRUE, TRUE, TRUE, TRUE, TRUE),      \* .Cargo.toml
               DirEntry(FALSE, TRUE, FALSE, TRUE, TRUE, TRUE)}    \* another file

\* the filters of the walk
IsManifest(e) == ~e.hidden /\ e.is_file /\ e.ends_with_cargo_toml

----------------------------------------------------------------------------
\* handle_toml_file

Ev(op, f, n, ok) == [op |-> op, file |-> f, name |-> n, ok |-> ok]

\* the inner for_each: every inline table of one dependency table, in order
RECURSIVE HandleItems(_, _, _, _, _)
HandleItems(items, f, rw, k, w) ==
    IF items = <<>> THEN [items |-> <<>>, events |-> <<>>]
    ELSE LET it == Head(items)
             rest == HandleItems(Tail(items), f, rw, k, w)
         IN  IF ~it.inline
             THEN [items |-> <<it>> \o rest.items, events |-> rest.events]
             ELSE LET r == handle_dependency(it.name, it.dep, rw, k, w) IN
                  [items |-> <<[it EXCEPT !.dep = r.dep]>> \o rest.items,
                   events |-> <<Ev("dep", f, it.name, r.ok)>> \o rest.events]

\* the outer for_each: every dependency table of the document, in order
RECURSIVE HandleTables(_, _, _, _, _)
HandleTables(doc, f, rw, k, w) ==
    IF doc = <<>> THEN [doc |-> <<>>, events |-> <<>>]
    ELSE LET t == Head(doc)
             rest == HandleTables(Tail(doc), f, rw, k, w)
         IN  IF ~(contains_dependencies(t.key) /\ t.is_table)
             THEN [doc |-> <<t>> \o rest.doc, events |-> rest.events]
             ELSE LET r == HandleItems(t.items, f, rw, k, w) IN
                  [doc |-> <<[t EXCEPT !.items = r.items]>> \o rest.doc,
                   events |-> r.events \o rest.events]

\* A variant that propagates the first handle_dependency error with `?`
handle_toml_file_Propagate(f, e, doc, rw, k, w) ==
    IF ~e.readable
    THEN [res |-> "err", wrote |-> FALSE, doc |-> doc, events |-> <<Ev("read", f, "", FALSE)>>]
    ELSE IF ~e.parses
    THEN [res |-> "err", wrote |-> FALSE, doc |-> doc, events |-> <<Ev("read", f, "", TRUE)>>]
    ELSE LET r == HandleTables(doc, f, rw, k, w)
             bad == {i \in 1..Len(r.events) : ~r.events[i].ok}
         IN  IF bad # {}
             THEN [res |-> "err", wrote |-> FALSE, doc |-> doc,
                   events |-> <<Ev("read", f, "", TRUE)>>
                        \o SubSeq(r.events, 1, CHOOSE i \in bad : \A j \in bad : i <= j)]
             ELSE [res |-> IF e.writable THEN "ok" ELSE "err",
                   wrote |-> e.writable,
                   doc |-> r.doc,
                   events |-> <<Ev("read", f, "", TRUE)>> \o r.events
                                \o <<Ev("write", f, "", e.writable)>>]

\* The outcome of handle_toml_file on walk entry f, whose file holds doc:
\* its result, whether it wrote the file, the document written, its events
handle_toml_file(f, e, doc, rw, k, w) ==
    IF ~e.readable
    THEN [res |-> "err", wrote |-> FALSE, doc |-> doc, events |-> <<Ev("read", f, "", FALSE)>>]
    ELSE IF ~e.parses
    THEN [res |-> "err", wrote |-> FALSE, doc |-> doc, events |-> <<Ev("read", f, "", TRUE)>>]
    ELSE LET r == HandleTables(doc, f, rw, k, w) IN
         [res |-> IF e.writable THEN "ok" ELSE "err",
          wrote |-> e.writable,
          doc |-> r.doc,
          events |-> <<Ev("read", f, "", TRUE)>> \o r.events
                        \o <<Ev("write", f, "", e.writable)>>]

----------------------------------------------------------------------------
\* Spec: Update::run

\* A variant of the walk that goes on after an Err (for_each)
try_for_each_breaks_Never(r) == FALSE

\* try_for_each stops at the first Err
try_for_each_breaks(r) == r # "ok"

RunWorlds == {World4}

IdleRun ==
    /\ opts = Opt({}, None, None, None, None, None)
    /\ path_is_dir = TRUE /\ tree = <<>> /\ disk = <<>>
    /\ pc = "start" /\ idx = 0 /\ parts = NoParts /\ result = "none" /\ log = <<>>

RunInit ==
    /\ opts \in Options
    /\ path_is_dir \in BOOLEAN
    /\ tree \in SeqsUpTo(DirEntries, MaxFiles)
    /\ disk = [i \in 1..Len(tree) |-> DocAt(i)]
    /\ world \in RunWorlds
    /\ pc = "start" /\ idx = 0 /\ parts = NoParts /\ result = "none" /\ log = <<>>

\* into_parts, the resolution of the path, the start of the walk
Start ==
    /\ pc = "start"
    /\ parts' = into_parts(opts)
    /\ IF ~parts'.ok \/ ~path_is_dir
       THEN pc' = "done" /\ result' = "err" /\ idx' = idx
       ELSE pc' = "walk" /\ result' = result /\ idx' = 1
    /\ UNCHANGED <<opts, path_is_dir, tree, disk, log, world, depVars, lockVars>>

\* the walk passes over an entry its filters reject
SkipEntry ==
    /\ pc = "walk" /\ idx <= Len(tree)
    /\ ~IsManifest(tree[idx])
    /\ idx' = idx + 1
    /\ UNCHANGED <<opts, path_is_dir, tree, disk, pc, parts, result, log,
                   world, depVars, lockVars>>

\* the walk hands the next manifest to handle_toml_file
HandleTomlFile ==
    /\ pc = "walk" /\ idx <= Len(tree)
    /\ IsManifest(tree[idx])
    /\ LET r == handle_toml_file(idx, tree[idx], disk[idx], parts.rewrite, parts.key, world) IN
        /\ log' = log \o r.events
        /\ disk' = IF r.wrote THEN [disk EXCEPT ![idx] = r.doc] ELSE disk
        /\ IF try_for_each_breaks(r.res)
           THEN pc' = "done" /\ result' = "err" /\ idx' = idx
           ELSE pc' = "walk" /\ result' = result /\ idx' = idx + 1
    /\ UNCHANGED <<opts, path_is_dir, tree, parts, world, depVars, lockVars>>

\* the walk is exhausted
Finish ==
    /\ pc = "walk" /\ idx > Len(tree)
    /\ pc' = "done" /\ result' = "ok"
    /\ UNCHANGED <<opts, path_is_dir, tree, disk, idx, parts, log,
                   world, depVars, lockVars>>

Init == RunInit /\ IdleDep /\ IdleLock
Next == Start \/ SkipEntry \/ HandleTomlFile \/ Finish
Spec == Init /\ [][Next]_vars

InitDep == DepInit /\ IdleLock /\ IdleRun
NextDep == CallHandleDependency
SpecDep == InitDep /\ [][NextDep]_vars

InitLock == LockInit /\ IdleRun
    /\ name = "foo" /\ dep = <<>> /\ dep0 = <<>> /\ dep1 = <<>>
    /\ rewrite = Rw("All", None) /\ key = K("Version", LockPath, "File")
    /\ calls = 0 /\ res1 = "none" /\ res = "none"
NextLock == Lookup
SpecLock == InitLock /\ [][NextLock]_vars


----------------------------------------------------------------------------
\* Properties of handle_dependency (SpecDep)

VcsFields == {"tag", "branch", "rev"}

\* the repository name a bucket stands for
BucketName(kind) ==
    CASE kind = "Substrate" -> "substrate"
      [] kind = "Polkadot" -> "polkadot"
      [] kind = "Cumulus" -> "cumulus"
      [] kind = "Beefy" -> "grandpa-bridge-gadget"
      [] OTHER -> "*"

\* the entry has a `git` string that parses and the target selects its repository
Eligible(d, rw) ==
    /\ IsSome(ParsedGit(d))
    /\ rw.kind = "All" \/ Unwrap(ParsedGit(d)) = BucketName(rw.kind)

\* the field a VCS key names
KeyField(k) ==
    CASE k.kind = "Tag" -> "tag"
      [] k.kind = "Branch" -> "branch"
      [] k.kind = "Rev" -> "rev"
      [] OTHER -> "version"

\* of tag, branch and rev exactly the key's field is present, with the key's string
ExactlyKeyField(d, k) ==
    /\ VcsFields \cap DOMAIN d = {KeyField(k)}
    /\ d[KeyField(k)] = Str(k.s)

\* the string the resolver gives for the entry the first call started from
Resolved == get_package_version(EffectivePackage(name, dep0), key.src, world)

\* C1: under a VCS key, an entry without a `git` field, with a `git` value that
\* does not parse, or of another repository than the target's, is the same
\* after the call as before it, tag, branch and rev included.
C1_IneligibleEntryUnchanged ==
    (calls >= 1 /\ is_git_source(key) /\ ~Eligible(dep0, rewrite)) => dep1 = dep0

\* C2: under a Version key, an entry whose version resolution fails keeps every
\* field it had before the call, version and path included.
C2_FailedResolutionLeavesEntry ==
    (calls >= 1 /\ key.kind = "Version" /\ res1 = "err") => dep1 = dep0

\* C3: the same rewrite applied twice leaves the entry as applying it once does.
C3_Idempotent ==
    calls = 2 => dep = dep1

\* C4 as stated: after every successful call under a VCS key, skipped entries
\* included, exactly the key's field of tag, branch and rev is present and
\* holds the requested string.
C4_ExactlyOneVcsField_AllCalls ==
    (calls >= 1 /\ is_git_source(key) /\ res1 = "ok") => ExactlyKeyField(dep1, key)

\* C4 amended: after a call under a VCS key on an entry the target selects (its
\* `git` value parses and its repository matches the target), exactly the key's
\* field of tag, branch and rev is present and holds the requested string.
C4_ExactlyOneVcsField ==
    (calls >= 1 /\ is_git_source(key) /\ Eligible(dep0, rewrite))
        => res1 = "ok" /\ ExactlyKeyField(dep1, key)

\* a selected entry that carried both a tag and a branch was rewritten to a rev
C4_Witness ==
    /\ calls >= 1 /\ key.kind = "Rev" /\ rewrite.kind = "Substrate"
    /\ Eligible(dep0, rewrite)
    /\ {"tag", "branch"} \subseteq DOMAIN dep0 /\ "rev" \notin DOMAIN dep0
    /\ ExactlyKeyField(dep1, key)

\* C5 as stated: after every successful call under a Version key, version is
\* the resolved string and none of tag, branch, rev, path is present.
C5_VersionOnly_NoVcsFields ==
    (calls >= 1 /\ key.kind = "Version" /\ res1 = "ok")
        => /\ Get(dep1, "version") = Some(Str(Resolved.v))
           /\ (VcsFields \cup {"path"}) \cap DOMAIN dep1 = {}

\* C5 amended: after every successful call under a Version key, version is the
\* resolved string, path is absent, and git, tag, branch and rev are as they
\* were before the call.
C5_VersionSet_PathRemoved ==
    (calls >= 1 /\ key.kind = "Version" /\ res1 = "ok")
        => /\ Resolved.ok
           /\ Get(dep1, "version") = Some(Str(Resolved.v))
           /\ "path" \notin DOMAIN dep1
           /\ \A f \in VcsFields \cup {"git"} : Get(dep1, f) = Get(dep0, f)

\* a git entry with a branch, a path and an old version got a resolved version
C5_Witness ==
    /\ calls >= 1 /\ key.kind = "Version" /\ res1 = "ok"
    /\ {"git", "branch", "path", "version"} \subseteq DOMAIN dep0
    /\ dep1["version"] # dep0["version"]
    /\ "branch" \in DOMAIN dep1 /\ "path" \notin DOMAIN dep1


----------------------------------------------------------------------------
\* Properties of the lockfile lookup (SpecLock)

Min(S) == CHOOSE i \in S : \A j \in S : i <= j

\* positions of the records named pkg
Named(records, pkg) == {i \in 1..Len(records) : records[i].name = Some(pkg)}

\* positions of the records named pkg that carry a version
NamedWithVersion(records, pkg) == {i \in Named(records, pkg) : IsSome(records[i].version)}

\* C9 as stated: the lookup returns the version of the first record whose name
\* equals the requested name, and nothing (a not-found error) when no record
\* with that name carries a version.
C9_FirstRecordByName ==
    (lock_done /\ body.parses /\ body.has_packages) =>
        LET N == Named(body.records, package_name) IN
        /\ N # {} => lock_result = body.records[Min(N)].version
        /\ NamedWithVersion(body.records, package_name) = {}
                => lock_result = None /\ res = "err"

\* C9 amended: the lookup returns the version of the first record whose name
\* equals the requested name and that carries a version, and nothing (a
\* not-found error) when no record with that name carries a version.
C9_FirstRecordWithVersion ==
    (lock_done /\ body.parses /\ body.has_packages) =>
        LET M == NamedWithVersion(body.records, package_name) IN
        IF M = {} THEN lock_result = None /\ res = "err"
        ELSE lock_result = body.records[Min(M)].version /\ res = "ok"

\* two records of the requested name with different versions: the first one won
C9_Witness ==
    /\ lock_done
    /\ \E i, j \in NamedWithVersion(body.records, package_name) :
          /\ i < j
          /\ Named(body.records, package_name) = {i, j}
          /\ body.records[i].version # body.records[j].version
          /\ lock_result = body.records[i].version

----------------------------------------------------------------------------
\* Properties of Update::run (Spec)

NumSelectors(o) == Cardinality({sel \in Selectors : o[sel]})

\* the combinations the options reject
InvalidVersion(o) ==
    /\ IsSome(o.version)
    /\ Unwrap(o.version) # "latest"
    /\ ~starts_with_http(Unwrap(o.version))
    /\ ~(path_exists(Unwrap(o.version)) /\ file_name_is_cargo_lock(Unwrap(o.version)))

NoKey(o) == ~IsSome(o.branch) /\ ~IsSome(o.rev) /\ ~IsSome(o.tag) /\ ~IsSome(o.version)

NoScope(o) == NumSelectors(o) = 0 /\ ~IsSome(o.version)

GitWithAll(o) == IsSome(o.git) /\ o.all

InvalidCombination(o) == InvalidVersion(o) \/ NoKey(o) \/ NoScope(o) \/ GitWithAll(o)

InitialDisk == [i \in 1..Len(tree) |-> DocAt(i)]

\* C6: on an invalid combination of options run returns an error and no
\* manifest has been read or written.
C6_ValidationBeforeFiles ==
    (pc # "start" /\ InvalidCombination(opts)) =>
        /\ pc = "done" /\ result = "err"
        /\ log = <<>>
        /\ disk = InitialDisk

\* run was given `--version 1.0.0` over a directory that holds a sound manifest
C6_Witness ==
    /\ pc = "done" /\ result = "err"
    /\ opts.version = Some("1.0.0")
    /\ path_is_dir
    /\ \E f \in 1..Len(tree) : tree[f] = DirEntry(FALSE, TRUE, TRUE, TRUE, TRUE, TRUE)
    /\ log = <<>>

\* C8: into_parts fails without a selector unless `--version` is given, fails
\* with more than one selector, and gives Rewrite::All without a selector only
\* when `--version` is given.
C8_ExactlyOneSelector ==
    pc # "start" =>
        /\ NoScope(opts) => ~parts.ok
        /\ NumSelectors(opts) > 1 => ~parts.ok
        /\ (parts.ok /\ parts.rewrite.kind = "All" /\ NumSelectors(opts) = 0)
                => IsSome(opts.version)

RECURSIVE Flatten(_)
Flatten(ss) == IF ss = <<>> THEN <<>> ELSE Head(ss) \o Flatten(Tail(ss))

IsInline(it) == it.inline
IsDependencyTable(t) == t.is_table /\ contains_dependencies(t.key)

InlineNames(t) ==
    LET its == SelectSeq(t.items, IsInline) IN [i \in 1..Len(its) |-> its[i].name]

\* the names of the inline tables of the dependency tables, in document order
EligibleNames(doc) ==
    LET ts == SelectSeq(doc, IsDependencyTable) IN
    Flatten([i \in 1..Len(ts) |-> InlineNames(ts[i])])

\* the names handle_dependency was called with for file f, in call order
DepNames(f) ==
    LET IsDepOfF(e) == e.op = "dep" /\ e.file = f
        es == SelectSeq(log, IsDepOfF)
    IN  [i \in 1..Len(es) |-> es[i].name]

DepFailed(f) == \E i \in 1..Len(log) : log[i].op = "dep" /\ log[i].file = f /\ ~log[i].ok

HasEvent(op, f, ok) == \E i \in 1..Len(log) : log[i] = Ev(op, f, "", ok)

Touched(f) == \E i \in 1..Len(log) : log[i].file = f

FileFails(e) == ~e.readable \/ ~e.parses \/ ~e.writable

Manifests == {f \in 1..Len(tree) : IsManifest(tree[f])}

\* C7: when handle_dependency fails for an entry of a file, handle_dependency
\* has still been called on every inline table of every dependency table of
\* that file, the file is written, and the walk goes on; a run without a
\* file-level failure ends in success with every manifest written.
C7_DependencyFailureIsolated ==
    /\ \A f \in 1..Len(tree) : DepFailed(f) =>
          /\ DepNames(f) = EligibleNames(InitialDisk[f])
          /\ HasEvent("write", f, tree[f].writable)
          /\ tree[f].writable => idx > f /\ ~(pc = "done" /\ result = "err" /\ idx = f)
    /\ (pc = "done" /\ parts.ok /\ path_is_dir /\ \A f \in Manifests : ~FileFails(tree[f]))
          => /\ result = "ok"
             /\ \A f \in Manifests : HasEvent("write", f, TRUE)

\* a dependency failed, a later dependency of the same file was rewritten, a
\* later manifest was written and the run succeeded
C7_Witness ==
    /\ pc = "done" /\ result = "ok"
    /\ \E i, j \in 1..Len(log) :
          /\ i < j
          /\ log[i].op = "dep" /\ ~log[i].ok
          /\ log[j].op = "dep" /\ log[j].ok /\ log[j].file = log[i].file
          /\ \E g \in Manifests : g > log[i].file /\ HasEvent("write", g, TRUE)

\* the document handle_toml_file leaves in file f
Rewritten(f) == HandleTables(InitialDisk[f], f, parts.rewrite, parts.key, world).doc

\* C10: the events of the files follow the walk order, one file after another;
\* when the k-th entry of the walk is the first manifest with a read, parse or
\* write failure, nothing after it is read or written, run ends with an error
\* at k, every manifest before k was read, rewritten and written, and k was not
\* written if it could not be read or parsed.
C10_FirstFileFailureEndsWalk ==
    /\ \A i, j \in 1..Len(log) : i < j =>
          /\ log[i].file <= log[j].file
          /\ log[i].file = log[j].file => log[i].op # "write" /\ log[j].op # "read"
    /\ \A k \in Manifests :
          (FileFails(tree[k]) /\ \A f \in Manifests : f < k => ~FileFails(tree[f])) =>
            /\ \A f \in 1..Len(tree) : f > k => ~Touched(f) /\ disk[f] = InitialDisk[f]
            /\ pc = "done" => result = "err"
            /\ (pc = "done" /\ parts.ok /\ path_is_dir) =>
                  /\ idx = k
                  /\ \A f \in Manifests : f < k =>
                        /\ HasEvent("read", f, TRUE) /\ HasEvent("write", f, TRUE)
                        /\ DepNames(f) = EligibleNames(InitialDisk[f])
                        /\ disk[f] = Rewritten(f)
                  /\ (~tree[k].readable \/ ~tree[k].parses) =>
                        /\ ~HasEvent("write", k, TRUE) /\ ~HasEvent("write", k, FALSE)
                        /\ disk[k] = InitialDisk[k]

\* three manifests, the second is not TOML: the first was rewritten, the third
\* was never opened
C10_Witness ==
    /\ pc = "done" /\ result = "err"
    /\ Manifests = {1, 2, 3}
    /\ ~FileFails(tree[1]) /\ ~tree[2].parses
    /\ HasEvent("write", 1, TRUE) /\ disk[1] # InitialDisk[1]
    /\ HasEvent("read", 2, TRUE)
    /\ ~Touched(3)

====
